---- MODULE Spec2Model ----
(***************************************************************************)
(* Model of ccao_calendar_collector.py: the date helpers (format_date,     *)
(* _get_bor_range, _parse_one_date_token, split_bor_dates_to_open_close,   *)
(* calc_bor_evidence_deadline), the triennial classifier and the           *)
(* gather_calendar pipeline (row loop, left join, deduplication).          *)
(*                                                                         *)
(* A text is the sequence of its lexemes: a maximal run of digits (its     *)
(* value n and its written width w, so "06" is n = 6, w = 2), a maximal    *)
(* run of letters, a run of white space, or one punctuation character.     *)
(* The regular expressions and strptime formats of the source are applied  *)
(* to these lexemes.  The texts of the model only hold digit runs of       *)
(* width 1, 2 or 4 and letter runs that are whole words.                   *)
(***************************************************************************)
EXTENDS Integers, Sequences, FiniteSets, TLC

VARIABLES rows, tri, now, pc, idx, data, df, out, arg, mid, res

vars == <<rows, tri, now, pc, idx, data, df, out, arg, mid, res>>

(***************************************************************************)
(* Bounds of the model.                                                    *)
(***************************************************************************)
MaxRows == 3
BaseYear == 2023
YearSpan == 2

(***************************************************************************)
(* Lexemes.                                                                *)
(***************************************************************************)
Width(n) == IF n < 10 THEN 1 ELSE IF n < 100 THEN 2 ELSE IF n < 1000 THEN 3 ELSE 4

N(n) == [k |-> "n", n |-> n, w |-> Width(n), s |-> ""]

Z(n) == [k |-> "n", n |-> n, w |-> IF n < 10 THEN 2 ELSE Width(n), s |-> ""]

W(s) == [k |-> "w", n |-> 0, w |-> 0, s |-> s]

P(s) == [k |-> "p", n |-> 0, w |-> 0, s |-> s]

SP == [k |-> "s", n |-> 0, w |-> 0, s |-> " "]

IsNum(t, lo, hi) == t.k = "n" /\ t.w >= lo /\ t.w <= hi

IsP(t, s) == t.k = "p" /\ t.s = s

(***************************************************************************)
(* Calendar dates as datetime.date keeps them.                             *)
(***************************************************************************)
NoDate == [y |-> 0, m |-> 0, d |-> 0]

IsLeap(y) == y % 4 = 0 /\ (y % 100 # 0 \/ y % 400 = 0)

DaysInMonth(y, m) ==
    IF m = 2 THEN (IF IsLeap(y) THEN 29 ELSE 28)
    ELSE IF m \in {4, 6, 9, 11} THEN 30 ELSE 31

ValidDate(y, m, d) ==
    /\ y >= 1 /\ y <= 9999
    /\ m >= 1 /\ m <= 12
    /\ d >= 1 /\ d <= DaysInMonth(y, m)

DaysBeforeYear(y) ==
    LET y1 == y - 1 IN y1 * 365 + (y1 \div 4) - (y1 \div 100) + (y1 \div 400)

RECURSIVE DaysBeforeMonth(_, _)
DaysBeforeMonth(y, m) ==
    IF m = 1 THEN 0 ELSE DaysBeforeMonth(y, m - 1) + DaysInMonth(y, m - 1)

ToOrdinal(dt) == DaysBeforeYear(dt.y) + DaysBeforeMonth(dt.y, dt.m) + dt.d

FromOrdinal(o) ==
    LET n0   == o - 1
        n400 == n0 \div 146097
        r400 == n0 % 146097
        n100 == r400 \div 36524
        r100 == r400 % 36524
        n4   == r100 \div 1461
        r4   == r100 % 1461
        n1   == r4 \div 365
        r1   == r4 % 365
        year == n400 * 400 + 1 + n100 * 100 + n4 * 4 + n1
    IN  IF n1 = 4 \/ n100 = 4
        THEN [y |-> year - 1, m |-> 12, d |-> 31]
        ELSE LET mo == CHOOSE m \in 1..12 :
                          /\ DaysBeforeMonth(year, m) <= r1
                          /\ r1 < DaysBeforeMonth(year, m) + DaysInMonth(year, m)
             IN  [y |-> year, m |-> mo, d |-> r1 - DaysBeforeMonth(year, mo) + 1]

\* date.weekday(): Monday is 0
Weekday(dt) == (ToOrdinal(dt) + 6) % 7

WeekdayName(i) ==
    <<"Monday", "Tuesday", "Wednesday", "Thursday", "Friday", "Saturday", "Sunday">>[i + 1]

MonthName(m) ==
    <<"January", "February", "March", "April", "May", "June", "July", "August",
      "September", "October", "November", "December">>[m]

MonthAbbr(m) ==
    <<"Jan", "Feb", "Mar", "Apr", "May", "Jun", "Jul", "Aug",
      "Sep", "Oct", "Nov", "Dec">>[m]

IsFullMonth(t) == t.k = "w" /\ \E m \in 1..12 : MonthName(m) = t.s

IsAbbrMonth(t) == t.k = "w" /\ \E m \in 1..12 : MonthAbbr(m) = t.s

FullMonthNo(t) == CHOOSE m \in 1..12 : MonthName(m) = t.s

AbbrMonthNo(t) == CHOOSE m \in 1..12 : MonthAbbr(m) = t.s

MkDate(y, m, d) == IF ValidDate(y, m, d) THEN [y |-> y, m |-> m, d |-> d] ELSE NoDate

\* datetime.strptime(s, "%m/%d/%Y"); NoDate stands for the ValueError
strptime_mdY(s) ==
    IF /\ Len(s) = 5
       /\ IsNum(s[1], 1, 2) /\ IsP(s[2], "/")
       /\ IsNum(s[3], 1, 2) /\ IsP(s[4], "/")
       /\ IsNum(s[5], 4, 4)
    THEN MkDate(s[5].n, s[1].n, s[3].n)
    ELSE NoDate

\* datetime.strptime(s, "%B %d, %Y")
strptime_BdY(s) ==
    IF /\ Len(s) = 6
       /\ IsFullMonth(s[1]) /\ s[2] = SP
       /\ IsNum(s[3], 1, 2) /\ IsP(s[4], ",") /\ s[5] = SP
       /\ IsNum(s[6], 4, 4)
    THEN MkDate(s[6].n, FullMonthNo(s[1]), s[3].n)
    ELSE NoDate

\* datetime.strptime(s, "%b %d, %Y")
strptime_bdY(s) ==
    IF /\ Len(s) = 6
       /\ IsAbbrMonth(s[1]) /\ s[2] = SP
       /\ IsNum(s[3], 1, 2) /\ IsP(s[4], ",") /\ s[5] = SP
       /\ IsNum(s[6], 4, 4)
    THEN MkDate(s[6].n, AbbrMonthNo(s[1]), s[3].n)
    ELSE NoDate

(***************************************************************************)
(* format_date                                                             *)
(***************************************************************************)
TBD == <<W("TBD")>>

\* OrdinalSuffix without the exception for 11, 12 and 13
OrdinalSuffix_NoTeens(day) ==
    IF day % 10 = 1 THEN "st"
    ELSE IF day % 10 = 2 THEN "nd"
    ELSE IF day % 10 = 3 THEN "rd"
    ELSE "th"

OrdinalSuffix(day) ==
    IF 11 <= day /\ day <= 13 THEN "th"
    ELSE IF day % 10 = 1 THEN "st"
    ELSE IF day % 10 = 2 THEN "nd"
    ELSE IF day % 10 = 3 THEN "rd"
    ELSE "th"

\* dt.strftime(f"%A, %B {day}{suffix}, %Y")
Display(dt) ==
    <<W(WeekdayName(Weekday(dt))), P(","), SP, W(MonthName(dt.m)), SP,
      N(dt.d), W(OrdinalSuffix(dt.d)), P(","), SP, N(dt.y)>>

format_date(date_str) ==
    LET dt == strptime_mdY(date_str)
    IN  IF dt = NoDate THEN TBD ELSE Display(dt)

(***************************************************************************)
(* _format_short and calc_bor_evidence_deadline                            *)
(***************************************************************************)
EvidenceDays == 10

_format_short(d) == <<N(d.m), P("/"), N(d.d), P("/"), N(d.y)>>

\* AddDays that adds to the day of the month only
AddDays_DayOnly(d, n) == MkDate(d.y, d.m, d.d + n)

\* d + timedelta(days=n); NoDate stands for the OverflowError
AddDays(d, n) ==
    LET o == ToOrdinal(d) + n
    IN  IF o < 1 \/ o > 3652059 THEN NoDate ELSE FromOrdinal(o)

calc_bor_evidence_deadline(close_str) ==
    IF close_str = <<>> THEN <<>>
    ELSE LET d == strptime_mdY(close_str)
         IN  IF d = NoDate THEN <<>>
             ELSE LET e == AddDays(d, EvidenceDays)
                  IN  IF e = NoDate THEN <<>> ELSE _format_short(e)

(***************************************************************************)
(* _parse_one_date_token                                                   *)
(***************************************************************************)
RECURSIVE LStrip(_)
LStrip(s) == IF s # <<>> /\ Head(s).k = "s" THEN LStrip(Tail(s)) ELSE s

RECURSIVE RStrip(_)
RStrip(s) ==
    IF s # <<>> /\ s[Len(s)].k = "s" THEN RStrip(SubSeq(s, 1, Len(s) - 1)) ELSE s

\* str.strip()
Strip(s) == RStrip(LStrip(s))

\* re.sub(r'^[A-Za-z]+,\s+', '', s)
DropWeekday(s) ==
    IF Len(s) >= 3 /\ s[1].k = "w" /\ IsP(s[2], ",") /\ s[3].k = "s"
    THEN SubSeq(s, 4, Len(s))
    ELSE s

IsOrdinalAt(s, i) ==
    i > 1 /\ s[i].k = "w" /\ s[i].s \in {"st", "nd", "rd", "th"} /\ s[i - 1].k = "n"

RECURSIVE DropOrdinalFrom(_, _)
DropOrdinalFrom(s, i) ==
    IF i > Len(s) THEN <<>>
    ELSE (IF IsOrdinalAt(s, i) THEN <<>> ELSE <<s[i]>>) \o DropOrdinalFrom(s, i + 1)

\* DropOrdinal that leaves the suffixes in place
DropOrdinal_Kept(s) == s

\* re.sub(r'(\d{1,2})(st|nd|rd|th)', r'\1', s)
DropOrdinal(s) == DropOrdinalFrom(s, 1)

\* the month alternation of both regular expressions: Jan(?:uary)? | ... (case-sensitive)
IsMonthWord(t) == IsFullMonth(t) \/ IsAbbrMonth(t)

\* length of a match of  month\s+\d{1,2},\s*\d{4}  that starts at lexeme i, else 0
MatchLong(s, i) ==
    IF /\ i + 4 <= Len(s)
       /\ IsMonthWord(s[i]) /\ s[i + 1].k = "s"
       /\ IsNum(s[i + 2], 1, 2) /\ IsP(s[i + 3], ",")
    THEN IF IsNum(s[i + 4], 4, 4) THEN 5
         ELSE IF i + 5 <= Len(s) /\ s[i + 4].k = "s" /\ IsNum(s[i + 5], 4, 4) THEN 6
         ELSE 0
    ELSE 0

\* length of a match of  \d{1,2}/\d{1,2}/\d{4}  that starts at lexeme i, else 0
MatchShort(s, i) ==
    IF /\ i + 4 <= Len(s)
       /\ IsNum(s[i], 1, 2) /\ IsP(s[i + 1], "/")
       /\ IsNum(s[i + 2], 1, 2) /\ IsP(s[i + 3], "/")
       /\ IsNum(s[i + 4], 4, 4)
    THEN 5
    ELSE 0

RECURSIVE SearchLongFrom(_, _)
SearchLongFrom(s, i) ==
    IF i > Len(s) THEN <<>>
    ELSE IF MatchLong(s, i) > 0 THEN SubSeq(s, i, i + MatchLong(s, i) - 1)
    ELSE SearchLongFrom(s, i + 1)

RECURSIVE SearchShortFrom(_, _)
SearchShortFrom(s, i) ==
    IF i > Len(s) THEN <<>>
    ELSE IF MatchShort(s, i) > 0 THEN SubSeq(s, i, i + 4)
    ELSE SearchShortFrom(s, i + 1)

\* the three trial formats, in the order of the source
TryFormats(s) ==
    IF strptime_BdY(s) # NoDate THEN strptime_BdY(s)
    ELSE IF strptime_bdY(s) # NoDate THEN strptime_bdY(s)
    ELSE strptime_mdY(s)

_parse_one_date_token(tok) ==
    LET s  == DropOrdinal(DropWeekday(Strip(tok)))
        m  == SearchLongFrom(s, 1)
        m2 == SearchShortFrom(s, 1)
        viaLong == IF m = <<>> THEN NoDate
                   ELSE IF strptime_BdY(m) # NoDate THEN strptime_BdY(m)
                   ELSE strptime_bdY(m)
    IN  IF TryFormats(s) # NoDate THEN TryFormats(s)
        ELSE IF viaLong # NoDate THEN viaLong
        ELSE IF m2 # <<>> THEN strptime_mdY(m2)
        ELSE NoDate

(***************************************************************************)
(* split_bor_dates_to_open_close                                           *)
(***************************************************************************)
\* str(bor_text).strip().upper() == "TBD"
IsTBDText(s) ==
    Len(Strip(s)) = 1 /\ Strip(s)[1].k = "w" /\ Strip(s)[1].s \in {"TBD", "Tbd", "tbd"}

\* .replace(en dash, "-").replace(em dash, "-")
NormDashes(s) ==
    [i \in 1..Len(s) |-> IF IsP(s[i], "en-dash") \/ IsP(s[i], "em-dash") THEN P("-") ELSE s[i]]

RECURSIVE SplitHyphen(_, _)
\* txt.split("-"): cur is the segment being read
SplitHyphen(s, cur) ==
    IF s = <<>> THEN <<cur>>
    ELSE IF IsP(Head(s), "-") THEN <<cur>> \o SplitHyphen(Tail(s), <<>>)
    ELSE SplitHyphen(Tail(s), Append(cur, Head(s)))

ShortOrEmpty(d) == IF d = NoDate THEN <<>> ELSE _format_short(d)

split_bor_dates_to_open_close(bor_text) ==
    IF bor_text = <<>> \/ Strip(bor_text) = <<>> \/ IsTBDText(bor_text)
    THEN <<(<<>>), (<<>>)>>
    ELSE LET txt   == NormDashes(bor_text)
             parts == SelectSeq(SplitHyphen(txt, <<>>), LAMBDA p : Strip(p) # <<>>)
         IN  IF Len(parts) >= 2
             THEN <<ShortOrEmpty(_parse_one_date_token(parts[1])),
                    ShortOrEmpty(_parse_one_date_token(parts[2]))>>
             ELSE LET ds == ShortOrEmpty(_parse_one_date_token(txt))
                  IN  <<ds, ds>>

(***************************************************************************)
(* _get_time and _get_bor_range.  A date field of a row is the sequence of *)
(* the texts of its <time> elements; the BOR field has two spellings, each *)
(* with its <time> texts (t1, t2) and, when the element exists, its        *)
(* flattened text (f1, f2 hold zero or one text).                          *)
(***************************************************************************)
_get_time(times) == IF times # <<>> THEN format_date(times[1]) ELSE TBD

RangeJoin(a, b) == a \o <<SP, P("-"), SP>> \o b

RECURSIVE FindAllFrom(_, _)
\* pat.findall(txt): the non-overlapping matches of (long|short), left to right
FindAllFrom(s, i) ==
    IF i > Len(s) THEN <<>>
    ELSE IF MatchLong(s, i) > 0
         THEN <<SubSeq(s, i, i + MatchLong(s, i) - 1)>> \o FindAllFrom(s, i + MatchLong(s, i))
    ELSE IF MatchShort(s, i) > 0
         THEN <<SubSeq(s, i, i + 4)>> \o FindAllFrom(s, i + 5)
    ELSE FindAllFrom(s, i + 1)

TextFallback(txt) ==
    LET flat == FindAllFrom(txt, 1)
    IN  IF Len(flat) >= 2 THEN RangeJoin(format_date(flat[1]), format_date(flat[2]))
        ELSE IF Len(flat) = 1 THEN format_date(flat[1])
        ELSE TBD

_get_bor_range(bor) ==
    LET times == IF bor.t1 # <<>> THEN bor.t1 ELSE bor.t2
        fld   == IF bor.f1 # <<>> THEN bor.f1 ELSE bor.f2
    IN  IF Len(times) >= 2 THEN RangeJoin(format_date(times[1]), format_date(times[2]))
        ELSE IF Len(times) = 1 THEN format_date(times[1])
        ELSE IF fld = <<>> THEN TBD
        ELSE TextFallback(fld[1])

(***************************************************************************)
(* determine_tri_label                                                     *)
(***************************************************************************)
\* determine_tri_label that tests current - 2 before current - 1
determine_tri_label_Swapped(years, current) ==
    IF current \in years THEN "Yes"
    ELSE IF (current - 2) \in years THEN "No - 3rd Year of Tri"
    ELSE IF (current - 1) \in years THEN "No - 2nd Year of Tri"
    ELSE "No"

determine_tri_label(years, current) ==
    IF current \in years THEN "Yes"
    ELSE IF (current - 1) \in years THEN "No - 2nd Year of Tri"
    ELSE IF (current - 2) \in years THEN "No - 3rd Year of Tri"
    ELSE "No"

(***************************************************************************)
(* Input texts of the helper specifications.                               *)
(***************************************************************************)
InputYears == (BaseYear..(BaseYear + YearSpan - 1)) \cup {999, 1900, 2000, 9999}

\* a year written with four digits, as %Y reads it ("0999")
Y4(y) == [k |-> "n", n |-> y, w |-> 4, s |-> ""]

ShortText(y, m, d) == <<N(m), P("/"), N(d), P("/"), Y4(y)>>

PaddedText(y, m, d) == <<Z(m), P("/"), Z(d), P("/"), Y4(y)>>

LongText(y, m, d) == <<W(MonthName(m)), SP, N(d), P(","), SP, Y4(y)>>

AbbrText(y, m, d) == <<W(MonthAbbr(m)), SP, N(d), P(","), SP, Y4(y)>>

NotADate == <<W("not"), SP, W("a"), SP, W("date")>>

JunkTexts == {<<>>, <<SP>>, NotADate, TBD, <<W("tbd")>>, <<P("-")>>,
              <<N(6), P("/"), N(2)>>, <<N(6), P("-"), N(2), P("-"), N(2025)>>}

DateInputs ==
    {ShortText(y, m, d) : y \in InputYears, m \in 0..13, d \in 0..32}
        \cup {PaddedText(y, m, d) : y \in {BaseYear + 1, 2000}, m \in 1..12, d \in {1, 9, 25}}
        \cup {LongText(y, m, d) : y \in {BaseYear + 1}, m \in {2, 12}, d \in {1, 25}}
        \cup JunkTexts

PipelineIdle ==
    /\ rows = <<>> /\ tri = <<>> /\ now = NoDate /\ idx = 0
    /\ data = <<>> /\ df = <<>> /\ out = <<>>

(***************************************************************************)
(* SpecDates: format_date and calc_bor_evidence_deadline applied to one    *)
(* input text.                                                             *)
(***************************************************************************)
InitDates ==
    /\ PipelineIdle
    /\ arg \in DateInputs
    /\ mid = <<>> /\ res = <<>> /\ pc = "in"

CallFormatDate ==
    /\ pc = "in"
    /\ res' = format_date(arg)
    /\ pc' = "formatted"
    /\ UNCHANGED <<rows, tri, now, idx, data, df, out, arg, mid>>

CallDeadline ==
    /\ pc = "in"
    /\ res' = calc_bor_evidence_deadline(arg)
    /\ pc' = "deadline"
    /\ UNCHANGED <<rows, tri, now, idx, data, df, out, arg, mid>>

NextDates == CallFormatDate \/ CallDeadline

SpecDates == InitDates /\ [][NextDates]_vars

(***************************************************************************)
(* What the claims mean by a valid M/D/YYYY text and by "n days after",    *)
(* stated from the Gregorian calendar and not from the code's arithmetic.  *)
(***************************************************************************)
GregorianLeap(y) == (y % 400 = 0) \/ (y % 4 = 0 /\ y % 100 # 0)

GregorianLen(y, m) ==
    <<31, IF GregorianLeap(y) THEN 29 ELSE 28, 31, 30, 31, 30, 31, 31, 30, 31, 30, 31>>[m]

IsMDY(s) ==
    /\ Len(s) = 5
    /\ s[1].k = "n" /\ s[3].k = "n" /\ s[5].k = "n"
    /\ s[2] = P("/") /\ s[4] = P("/")
    /\ s[1].w \in {1, 2} /\ s[3].w \in {1, 2} /\ s[5].w = 4
    /\ s[5].n \in 1..9999 /\ s[1].n \in 1..12
    /\ s[3].n \in 1..GregorianLen(s[5].n, s[1].n)

DateOfMDY(s) == [y |-> s[5].n, m |-> s[1].n, d |-> s[3].n]

NextDay(dt) ==
    IF dt.d < GregorianLen(dt.y, dt.m) THEN [dt EXCEPT !.d = dt.d + 1]
    ELSE IF dt.m < 12 THEN [y |-> dt.y, m |-> dt.m + 1, d |-> 1]
    ELSE [y |-> dt.y + 1, m |-> 1, d |-> 1]

RECURSIVE DaysAfter(_, _)
DaysAfter(dt, n) == IF n = 0 THEN dt ELSE DaysAfter(NextDay(dt), n - 1)

Digits(n) == CHOOSE w \in 1..5 : (n = 0 /\ w = 1) \/ (n > 0 /\ 10^(w - 1) <= n /\ n < 10^w)

\* the M/D/YYYY short form, no zero padding: each number written with just its digits
IsShortOf(s, dt) ==
    /\ Len(s) = 5
    /\ s[1] = [k |-> "n", n |-> dt.m, w |-> Digits(dt.m), s |-> ""]
    /\ s[2] = P("/")
    /\ s[3] = [k |-> "n", n |-> dt.d, w |-> Digits(dt.d), s |-> ""]
    /\ s[4] = P("/")
    /\ s[5] = [k |-> "n", n |-> dt.y, w |-> Digits(dt.y), s |-> ""]

\* C3 as claimed: calc_bor_evidence_deadline(close) is empty when close is empty or
\* is not a valid M/D/YYYY date, and otherwise is the unpadded M/D/YYYY form of the
\* calendar date exactly 10 days after close.
C3_Original ==
    pc = "deadline" =>
        IF IsMDY(arg)
        THEN IsShortOf(res, DaysAfter(DateOfMDY(arg), 10))
        ELSE res = <<>>

\* C3 as amended: the result is also empty when the date 10 days after close lies
\* beyond year 9999 (close after 12/21/9999); for every other valid close it is the
\* unpadded M/D/YYYY form of the date exactly 10 days later, across month ends, year
\* ends and leap Februaries.
C3_EvidenceDeadline ==
    pc = "deadline" =>
        IF IsMDY(arg) /\ DaysAfter(DateOfMDY(arg), 10).y <= 9999
        THEN IsShortOf(res, DaysAfter(DateOfMDY(arg), 10))
        ELSE res = <<>>

C3_Witness ==
    /\ pc = "deadline"
    /\ arg = PaddedText(2000, 2, 25)
    /\ res = <<N(3), P("/"), N(6), P("/"), N(2000)>>

\* C4: format_date of a valid date with day d writes d followed by "th" when d is
\* 11, 12 or 13, else by "st", "nd", "rd" when d mod 10 is 1, 2, 3, else by "th".
C4_OrdinalSuffix ==
    (pc = "formatted" /\ IsMDY(arg)) =>
        LET d == arg[3].n
            want == IF d \in {11, 12, 13} THEN "th"
                    ELSE IF d \in {1, 21, 31} THEN "st"
                    ELSE IF d \in {2, 22} THEN "nd"
                    ELSE IF d \in {3, 23} THEN "rd"
                    ELSE "th"
        IN  /\ Len(res) = 10
            /\ res[6].k = "n" /\ res[6].n = d
            /\ res[7] = W(want)

C4_Witness ==
    /\ pc = "formatted"
    /\ IsMDY(arg) /\ arg[3].n = 12
    /\ res[7] = W("th")

(***************************************************************************)
(* SpecTri: determine_tri_label applied to one list of years and one       *)
(* current year.                                                           *)
(***************************************************************************)
TriYears == (BaseYear - 3)..(BaseYear + YearSpan)

InitTri ==
    /\ PipelineIdle
    /\ arg \in [years : SUBSET TriYears, current : TriYears]
    /\ mid = <<>> /\ res = <<>> /\ pc = "in"

CallTriLabel ==
    /\ pc = "in"
    /\ res' = determine_tri_label(arg.years, arg.current)
    /\ pc' = "tri"
    /\ UNCHANGED <<rows, tri, now, idx, data, df, out, arg, mid>>

NextTri == CallTriLabel

SpecTri == InitTri /\ [][NextTri]_vars

\* C2: determine_tri_label returns the first matching label in the order "Yes"
\* (current in years), "No - 2nd Year of Tri" (current-1 in years), "No - 3rd Year
\* of Tri" (current-2 in years), "No" (none of them); an earlier rule wins.
C2_TriLabel ==
    pc = "tri" =>
        LET c0 == arg.current \in arg.years
            c1 == (arg.current - 1) \in arg.years
            c2 == (arg.current - 2) \in arg.years
        IN  /\ c0 => res = "Yes"
            /\ (~c0 /\ c1) => res = "No - 2nd Year of Tri"
            /\ (~c0 /\ ~c1 /\ c2) => res = "No - 3rd Year of Tri"
            /\ (~c0 /\ ~c1 /\ ~c2) => res = "No"

C2_Witness ==
    /\ pc = "tri"
    /\ arg.current \notin arg.years
    /\ (arg.current - 1) \in arg.years
    /\ (arg.current - 2) \in arg.years
    /\ res = "No - 2nd Year of Tri"

(***************************************************************************)
(* SpecSplit: a display range, a single display date or another text is    *)
(* written first (format_date on M/D/YYYY texts, joined with " - "), then  *)
(* split_bor_dates_to_open_close reads it.                                 *)
(***************************************************************************)
SplitDays == {1, 2, 3, 4, 11, 12, 13, 21, 22, 23, 28, 29, 30, 31}

OpenDates ==
    {dt \in [y : InputYears, m : 1..12, d : SplitDays] : ValidDate(dt.y, dt.m, dt.d)}

CloseDates ==
    {dt \in [y : {999, BaseYear + 1}, m : {2, 8}, d : {1, 22, 29}] : ValidDate(dt.y, dt.m, dt.d)}

NoDateTexts == JunkTexts \cup {RangeJoin(TBD, TBD), RangeJoin(NotADate, NotADate)}

OtherTexts ==
    NoDateTexts
        \cup {Display(a) \o <<SP, P(dash), SP>> \o Display(b) :
                 a \in {[y |-> BaseYear + 1, m |-> 6, d |-> 2]},
                 b \in {[y |-> BaseYear + 1, m |-> 8, d |-> 1]},
                 dash \in {"en-dash", "em-dash"}}
        \cup {RangeJoin(TBD, Display([y |-> BaseYear + 1, m |-> 8, d |-> 1]))}

SplitInputs ==
    {[kind |-> "pair", a |-> a, b |-> b, t |-> <<>>] : a \in OpenDates, b \in CloseDates}
        \cup {[kind |-> "single", a |-> a, b |-> NoDate, t |-> <<>>] : a \in OpenDates}
        \cup {[kind |-> "text", a |-> NoDate, b |-> NoDate, t |-> t] : t \in OtherTexts}

InitSplit ==
    /\ PipelineIdle
    /\ arg \in SplitInputs
    /\ mid = <<>> /\ res = <<>> /\ pc = "in"

RenderRange ==
    /\ pc = "in" /\ arg.kind = "pair"
    /\ mid' = RangeJoin(format_date(ShortText(arg.a.y, arg.a.m, arg.a.d)),
                        format_date(ShortText(arg.b.y, arg.b.m, arg.b.d)))
    /\ pc' = "text"
    /\ UNCHANGED <<rows, tri, now, idx, data, df, out, arg, res>>

RenderSingle ==
    /\ pc = "in" /\ arg.kind = "single"
    /\ mid' = format_date(ShortText(arg.a.y, arg.a.m, arg.a.d))
    /\ pc' = "text"
    /\ UNCHANGED <<rows, tri, now, idx, data, df, out, arg, res>>

TakeText ==
    /\ pc = "in" /\ arg.kind = "text"
    /\ mid' = arg.t
    /\ pc' = "text"
    /\ UNCHANGED <<rows, tri, now, idx, data, df, out, arg, res>>

CallSplit ==
    /\ pc = "text"
    /\ res' = split_bor_dates_to_open_close(mid)
    /\ pc' = "split"
    /\ UNCHANGED <<rows, tri, now, idx, data, df, out, arg, mid>>

NextSplit == RenderRange \/ RenderSingle \/ TakeText \/ CallSplit

SpecSplit == InitSplit /\ [][NextSplit]_vars

FourDigitYear(dt) == dt.y >= 1000 /\ dt.y <= 9999

SplitRoundTrip(anyYear) ==
    LET covered(dt) == anyYear \/ FourDigitYear(dt) IN
    pc = "split" =>
        /\ (arg.kind = "pair" /\ covered(arg.a) /\ covered(arg.b)) =>
               /\ Len(res) = 2
               /\ IsShortOf(res[1], arg.a)
               /\ IsShortOf(res[2], arg.b)
        /\ (arg.kind = "single" /\ covered(arg.a)) =>
               /\ Len(res) = 2
               /\ IsShortOf(res[1], arg.a)
               /\ IsShortOf(res[2], arg.a)
        /\ (arg.kind = "text" /\ arg.t \in NoDateTexts) => res = <<(<<>>), (<<>>)>>

RECURSIVE JoinToks(_, _)
JoinToks(ts, sep) ==
    IF ts = <<>> THEN <<>>
    ELSE IF Len(ts) = 1 THEN ts[1]
    ELSE ts[1] \o sep \o JoinToks(Tail(ts), sep)

RangeTokens ==
    {LongText(BaseYear + 1, 6, 2), AbbrText(BaseYear + 1, 8, 1),
     ShortText(BaseYear + 1, 6, 2), ShortText(BaseYear + 1, 8, 1),
     PaddedText(BaseYear + 1, 9, 5), ShortText(BaseYear + 1, 2, 30)}

TokenLists ==
    {<<>>} \cup {<<a>> : a \in RangeTokens}
        \cup {<<a, b>> : a \in RangeTokens, b \in RangeTokens}
        \cup {<<a, b, c>> : a \in RangeTokens, b \in RangeTokens, c \in {ShortText(BaseYear + 1, 8, 1)}}

Separators == {<<SP, P("-"), SP>>, <<SP, W("through"), SP>>}

FieldText(ts, sep) ==
    IF ts = <<>> THEN <<W("Dates"), SP, W("to"), SP, W("be"), SP, W("announced")>>
    ELSE <<W("Filing"), P(":"), SP>> \o JoinToks(ts, sep)

TimeTexts == {ShortText(BaseYear + 1, 6, 2), ShortText(BaseYear + 1, 8, 1), NotADate}

TimeLists == {<<>>} \cup {<<a>> : a \in TimeTexts} \cup {<<a, b>> : a \in TimeTexts, b \in TimeTexts}

BorFields ==
    {[t1 |-> <<>>, f1 |-> <<>>, t2 |-> <<>>, f2 |-> <<>>, toks |-> <<>>]}
        \cup {[t1 |-> <<>>, f1 |-> <<FieldText(ts, sep)>>, t2 |-> <<>>, f2 |-> <<>>, toks |-> ts] :
                 ts \in TokenLists, sep \in Separators}
        \cup {[t1 |-> <<>>, f1 |-> <<>>, t2 |-> <<>>, f2 |-> <<FieldText(ts, sep)>>, toks |-> ts] :
                 ts \in TokenLists, sep \in Separators}
        \cup {[t1 |-> t, f1 |-> <<JoinToks(t, <<SP>>)>>, t2 |-> <<>>, f2 |-> <<>>, toks |-> <<>>] :
                 t \in TimeLists \ {<<>>}}
        \cup {[t1 |-> <<>>, f1 |-> f, t2 |-> t, f2 |-> <<JoinToks(t, <<SP>>)>>, toks |-> <<>>] :
                 t \in TimeLists \ {<<>>}, f \in {<<>>, <<NotADate>>}}

InitRange ==
    /\ PipelineIdle
    /\ arg \in BorFields
    /\ mid = <<>> /\ res = <<>> /\ pc = "in"

CallBorRange ==
    /\ pc = "in"
    /\ res' = _get_bor_range(arg)
    /\ pc' = "range"
    /\ UNCHANGED <<rows, tri, now, idx, data, df, out, arg, mid>>

\* the range text then goes through split_bor_dates_to_open_close, as in gather_calendar
SplitBorRange ==
    /\ pc = "range"
    /\ mid' = split_bor_dates_to_open_close(res)
    /\ pc' = "open-close"
    /\ UNCHANGED <<rows, tri, now, idx, data, df, out, arg, res>>

NextRange == CallBorRange \/ SplitBorRange

SpecRange == InitRange /\ [][NextRange]_vars

\* the date a token of shape "Month D, YYYY" or "M/D/YYYY" denotes, NoDate if none
TokenDate(t) ==
    LET y == t[Len(t)].n
        m == IF t[1].k = "n" THEN t[1].n
             ELSE CHOOSE i \in 1..12 : t[1].s \in {MonthName(i), MonthAbbr(i)}
        d == t[3].n
    IN  IF y \in 1..9999 /\ m \in 1..12 /\ d \in 1..GregorianLen(y, m)
        THEN [y |-> y, m |-> m, d |-> d]
        ELSE NoDate

\* the long-form rendering of the date of a token; "TBD" when it denotes no date
TokenDisplay(t) == IF TokenDate(t) = NoDate THEN TBD ELSE Display(TokenDate(t))

UsesTextFallback == arg.t1 = <<>> /\ arg.t2 = <<>> /\ (arg.f1 # <<>> \/ arg.f2 # <<>>)

\* C6: in the textual fallback the date tokens of either shape are taken left to
\* right; the first two give "<display of d1> - <display of d2>", each display the
\* long-form rendering of that date; one gives its display; none gives "TBD".
C6_TextFallback ==
    (pc = "range" /\ UsesTextFallback) =>
        IF Len(arg.toks) >= 2
        THEN res = RangeJoin(TokenDisplay(arg.toks[1]), TokenDisplay(arg.toks[2]))
        ELSE IF Len(arg.toks) = 1 THEN res = TokenDisplay(arg.toks[1])
        ELSE res = TBD

(***************************************************************************)
(* gather_calendar.  A row of the page: title holds zero or one township   *)
(* name, each date field the texts of its <time> elements, bor the BOR     *)
(* field, and raises tells whether building its record raises an           *)
(* unexpected error.                                                       *)
(***************************************************************************)
NoBor == [t1 |-> <<>>, f1 |-> <<>>, t2 |-> <<>>, f2 |-> <<>>, toks |-> <<>>]

\* FmtOrEmpty without the guard on the empty string
FmtOrEmpty_Unguarded(x) == format_date(x)

\* lines 180-182: format_date(x) if x else ""
FmtOrEmpty(x) == IF x # <<>> THEN format_date(x) ELSE <<>>

\* now.strftime("%m/%d/%Y")
NowText(today) == PaddedText(today.y, today.m, today.d)

BuildRecord(row, today) ==
    LET mailed_date   == _get_time(row.mailed)
        deadline_date == _get_time(row.deadline)
        bor_dates     == _get_bor_range(row.bor)
        oc            == split_bor_dates_to_open_close(bor_dates)
        bor_open      == oc[1]
        bor_close     == oc[2]
        evidence      == calc_bor_evidence_deadline(bor_close)
    IN  [Township    |-> row.title[1],
         Mailed      |-> mailed_date,
         Deadline    |-> deadline_date,
         Certified   |-> _get_time(row.certified),
         APublished  |-> _get_time(row.published),
         BorOpen     |-> FmtOrEmpty(bor_open),
         BorClose    |-> FmtOrEmpty(bor_close),
         BorEvidence |-> FmtOrEmpty(evidence),
         Published   |-> IF mailed_date # TBD /\ deadline_date # TBD THEN "Yes" ELSE "No",
         LastUpdated |-> format_date(NowText(today))]

\* RowStep that appends a placeholder record for a row that raised
RowStep_AppendOnError(acc, row, today) ==
    IF row.title = <<>> THEN acc
    ELSE Append(acc, BuildRecord(IF row.raises THEN [row EXCEPT !.mailed = <<>>] ELSE row, today))

\* one iteration of the loop over div.views-row: continue without a title link,
\* skip the row when anything raises, else append its record
RowStep(acc, row, today) ==
    IF row.title = <<>> THEN acc
    ELSE IF row.raises THEN acc
    ELSE Append(acc, BuildRecord(row, today))

(***************************************************************************)
(* load_triennial and the left join.  The reference file is absent         *)
(* (present = FALSE) or holds rows [Township, Years, R3].                  *)
(***************************************************************************)
load_triennial(t, today) ==
    [i \in 1..Len(t.rows) |->
        [Township |-> t.rows[i].Township,
         Next     |-> t.rows[i].R3,
         Label    |-> determine_tri_label(t.rows[i].Years, today.y)]]

NoTriColumns == [cols |-> FALSE, matched |-> FALSE, Next |-> 0, Label |-> ""]

NaNTriColumns == [cols |-> TRUE, matched |-> FALSE, Next |-> 0, Label |-> ""]

\* the rows one left row gives in df.merge(tri, on="Township", how="left")
JoinRow(rec, t) ==
    LET hits == SelectSeq(t, LAMBDA r : r.Township = rec.Township)
    IN  IF hits = <<>> THEN <<[rec |-> rec, tri |-> NaNTriColumns]>>
        ELSE [i \in 1..Len(hits) |->
                 [rec |-> rec,
                  tri |-> [cols |-> TRUE, matched |-> TRUE,
                           Next |-> hits[i].Next, Label |-> hits[i].Label]]]

RECURSIVE LeftJoin(_, _)
LeftJoin(d, t) ==
    IF d = <<>> THEN <<>> ELSE JoinRow(Head(d), t) \o LeftJoin(Tail(d), t)

\* lines 202-205: the frame the deduplication reads
Assemble(d, t, today) ==
    IF t.present THEN LeftJoin(d, load_triennial(t, today))
    ELSE [i \in 1..Len(d) |-> [rec |-> d[i], tri |-> NoTriColumns]]

(***************************************************************************)
(* Deduplication, lines 206-213.                                           *)
(***************************************************************************)
\* str.lower() on the values the Published? column holds
Lower(s) == CASE s = "Yes" -> "yes" [] s = "No" -> "no" [] OTHER -> s

ValueCount(f, name) == Cardinality({i \in 1..Len(f) : f[i].rec.Township = name})

DupeTownships(f) == {f[i].rec.Township : i \in {j \in 1..Len(f) : ValueCount(f, f[j].rec.Township) > 1}}

\* CleanedDupes that compares the flag with "yes" without lowering it
CleanedDupes_NoLower(df_dupes) == SelectSeq(df_dupes, LAMBDA r : r.rec.Published = "yes")

CleanedDupes(df_dupes) == SelectSeq(df_dupes, LAMBDA r : Lower(r.rec.Published) = "yes")

\* Concat with the two frames in the other order
Concat_Reversed(a, b) == b \o a

\* pd.concat([a, b], ignore_index=True)
Concat(a, b) == a \o b

Dedup(f) ==
    LET dupes    == DupeTownships(f)
        df_dupes == SelectSeq(f, LAMBDA r : r.rec.Township \in dupes)
        uniques  == SelectSeq(f, LAMBDA r : r.rec.Township \notin dupes)
    IN  Concat(uniques, CleanedDupes(df_dupes))

(***************************************************************************)
(* The pages and reference tables of the model.                            *)
(***************************************************************************)
Townships == {"A", "B"}

Times(m, d) == <<ShortText(BaseYear + 1, m, d)>>

AllAbsentFields ==
    [mailed |-> <<>>, deadline |-> <<>>, certified |-> <<>>, published |-> <<>>, bor |-> NoBor]

FullFields ==
    [mailed |-> Times(3, 3), deadline |-> Times(4, 12), certified |-> Times(5, 1),
     published |-> Times(5, 21),
     bor |-> [NoBor EXCEPT !.t1 = <<ShortText(BaseYear + 1, 6, 2), ShortText(BaseYear + 1, 8, 1)>>,
                           !.f1 = <<NotADate>>]]

MailedOnlyFields ==
    [mailed |-> Times(3, 3), deadline |-> <<NotADate>>, certified |-> <<>>, published |-> <<>>,
     bor |-> [NoBor EXCEPT !.f2 = <<FieldText(<<ShortText(BaseYear + 1, 12, 25)>>, <<SP>>)>>,
                           !.toks = <<ShortText(BaseYear + 1, 12, 25)>>]]

MkRow(name, fields, raises) ==
    [title |-> name, mailed |-> fields.mailed, deadline |-> fields.deadline,
     certified |-> fields.certified, published |-> fields.published,
     bor |-> fields.bor, raises |-> raises]

PageRows ==
    {MkRow(<<"A">>, f, FALSE) : f \in {AllAbsentFields, FullFields, MailedOnlyFields}}
        \cup {MkRow(<<"B">>, f, FALSE) : f \in {AllAbsentFields, FullFields}}
        \cup {MkRow(<<"A">>, FullFields, TRUE), MkRow(<<>>, FullFields, FALSE)}

RECURSIVE SeqsUpTo(_, _)
SeqsUpTo(S, n) ==
    IF n = 0 THEN {<<>>}
    ELSE LET shorter == SeqsUpTo(S, n - 1)
         IN  shorter \cup {Append(q, x) : q \in {r \in shorter : Len(r) = n - 1}, x \in S}

TriRow(name, y) == [Township |-> name, Years |-> {y}, R3 |-> y + 3]

TriTables ==
    {[present |-> FALSE, rows |-> <<>>]}
        \cup {[present |-> TRUE, rows |-> r] :
                 r \in {<<>>, <<TriRow("A", BaseYear)>>, <<TriRow("B", BaseYear + 1)>>,
                        <<TriRow("A", BaseYear), TriRow("B", BaseYear + 1)>>,
                        <<TriRow("A", BaseYear), TriRow("A", BaseYear + 2)>>}}

\* the clock reading of the run, datetime.now()
Today == [y |-> BaseYear + 2, m |-> 11, d |-> 3]

Init ==
    /\ rows \in SeqsUpTo(PageRows, MaxRows)
    /\ tri \in TriTables
    /\ now = Today
    /\ pc = "loop" /\ idx = 0
    /\ data = <<>> /\ df = <<>> /\ out = <<>>
    /\ arg = <<>> /\ mid = <<>> /\ res = <<>>

\* lines 167-201, one row
ProcessRow ==
    /\ pc = "loop" /\ idx < Len(rows)
    /\ data' = RowStep(data, rows[idx + 1], now)
    /\ idx' = idx + 1
    /\ UNCHANGED <<rows, tri, now, pc, df, out, arg, mid, res>>

\* lines 202-205; merging a frame without columns on "Township" raises KeyError
MergeTri ==
    /\ pc = "loop" /\ idx = Len(rows)
    /\ IF tri.present /\ data = <<>>
       THEN pc' = "raised" /\ df' = <<>>
       ELSE pc' = "merged" /\ df' = Assemble(data, tri, now)
    /\ UNCHANGED <<rows, tri, now, idx, data, out, arg, mid, res>>

\* lines 206-232
Deduplicate ==
    /\ pc = "merged"
    /\ out' = IF df = <<>> THEN df ELSE Dedup(df)
    /\ pc' = "done"
    /\ UNCHANGED <<rows, tri, now, idx, data, df, arg, mid, res>>

Next == ProcessRow \/ MergeTri \/ Deduplicate

Spec == Init /\ [][Next]_vars

(***************************************************************************)
(* Claims about gather_calendar.                                           *)
(***************************************************************************)
\* a published flag that equals "Yes" compared case-insensitively
IsYes(flag) == flag \in {"Yes", "yes", "YES", "yEs", "yeS", "YEs", "yES", "YeS"}

RowsOf(f, name) == SelectSeq(f, LAMBDA r : r.rec.Township = name)

Occurrences(f, name) == Len(RowsOf(f, name))

\* C1: deduplication over the assembled rows (the frame after the join): a township
\* that occurs once keeps its row unchanged; one that occurs more than once keeps
\* exactly its rows whose published flag is "Yes" (case-insensitive) and none of its
\* "No" rows, so a duplicated township without a "Yes" row has no row in the output.
C1_Dedup ==
    pc = "done" =>
        \A name \in Townships :
            /\ Occurrences(df, name) = 1 => RowsOf(out, name) = RowsOf(df, name)
            /\ Occurrences(df, name) > 1 =>
                   /\ RowsOf(out, name) = SelectSeq(RowsOf(df, name), LAMBDA r : IsYes(r.rec.Published))
                   /\ \A i \in 1..Len(out) :
                          out[i].rec.Township = name => out[i].rec.Published # "No"
                   /\ (\A i \in 1..Len(df) : df[i].rec.Township = name => ~IsYes(df[i].rec.Published))
                          => Occurrences(out, name) = 0

C1_Witness ==
    /\ pc = "done"
    /\ ~tri.present
    /\ Len(df) = 3
    /\ df[1].rec.Township = "A" /\ df[1].rec.Published = "No"
    /\ df[2].rec.Township = "B"
    /\ df[3].rec.Township = "A" /\ df[3].rec.Published = "Yes"
    /\ out = <<df[2], df[3]>>

AllDatesAbsent(row) ==
    /\ row.mailed = <<>> /\ row.deadline = <<>>
    /\ row.certified = <<>> /\ row.published = <<>>
    /\ row.bor.t1 = <<>> /\ row.bor.t2 = <<>> /\ row.bor.f1 = <<>> /\ row.bor.f2 = <<>>

\* the row just processed contributed the last record of data
JustAppended == pc = "loop" /\ idx > 0 /\ rows[idx].title # <<>> /\ ~rows[idx].raises

LastRecord == data[Len(data)]

\* C7 as claimed: an entity all of whose date fields are absent yields published =
\* "No" and "TBD" in each of mailed, appeal deadline, both A-roll dates, BOR open,
\* BOR close and BOR evidence deadline.
C7_Original ==
    (JustAppended /\ AllDatesAbsent(rows[idx])) =>
        /\ LastRecord.Published = "No"
        /\ LastRecord.Mailed = TBD /\ LastRecord.Deadline = TBD
        /\ LastRecord.Certified = TBD /\ LastRecord.APublished = TBD
        /\ LastRecord.BorOpen = TBD /\ LastRecord.BorClose = TBD
        /\ LastRecord.BorEvidence = TBD

\* C7 as amended: such an entity yields published = "No", "TBD" in mailed, appeal
\* deadline and both A-roll dates, and the empty string in BOR open, BOR close and
\* BOR evidence deadline.
C7_AllAbsent ==
    (JustAppended /\ AllDatesAbsent(rows[idx])) =>
        /\ LastRecord.Published = "No"
        /\ LastRecord.Mailed = TBD /\ LastRecord.Deadline = TBD
        /\ LastRecord.Certified = TBD /\ LastRecord.APublished = TBD
        /\ LastRecord.BorOpen = <<>> /\ LastRecord.BorClose = <<>>
        /\ LastRecord.BorEvidence = <<>>

C7_Witness ==
    /\ JustAppended /\ AllDatesAbsent(rows[idx])
    /\ LastRecord.Township = "B"
    /\ LastRecord.Published = "No"
    /\ LastRecord.BorOpen = <<>>

\* the rows whose record building does not raise
Healthy(rs) == SelectSeq(rs, LAMBDA r : ~r.raises)

\* the record each titled row of the model's pages contributes when nothing raises
RecordPairs == {<<r, BuildRecord(r, Today)>> : r \in {q \in PageRows : q.title # <<>>}}

RecordOfRow(r) == (CHOOSE p \in RecordPairs : p[1] = [r EXCEPT !.raises = FALSE])[2]

\* the records of a page none of whose rows raises: one per titled row, in page order
Collect(rs) ==
    LET titled == SelectSeq(rs, LAMBDA r : r.title # <<>>)
    IN  [i \in 1..Len(titled) |-> RecordOfRow(titled[i])]

\* C8: a row whose record building raises contributes no record, and every other
\* row, before and after it, contributes exactly the record it contributes on the
\* page without the failing rows; the output is that of the page without them.
C8_FailureIsolation ==
    /\ pc \in {"loop", "merged", "raised", "done"} =>
           /\ data = Collect(Healthy(SubSeq(rows, 1, idx)))
           /\ Len(data) = Cardinality({i \in 1..idx : rows[i].title # <<>> /\ ~rows[i].raises})
    /\ pc = "done" =>
           out = (LET d == Collect(Healthy(rows))
                      f == Assemble(d, tri, now)
                  IN  IF f = <<>> THEN f ELSE Dedup(f))

C8_Witness ==
    /\ pc = "done"
    /\ Len(rows) = 3
    /\ ~rows[1].raises /\ rows[1].title # <<>>
    /\ rows[2].raises
    /\ ~rows[3].raises /\ rows[3].title # <<>>
    /\ Len(data) = 2
    /\ data[1].Township = "A" /\ data[2].Township = "B"
    /\ Len(out) = 2

IsUnique(r) == Occurrences(df, r.rec.Township) = 1

C10_JoinKeepsEntities ==
    pc = "done" =>
        \A name \in Townships :
            Cardinality({i \in 1..Len(data) : data[i].Township = name}) = 1
                => Occurrences(out, name) = 1

====
